---- MODULE Spec2Model ----
(***************************************************************************)
(* Event-Dashboard backend (the express server in                          *)
(* src/www/app/frontend/src/pages/admin/AdminPeople.jsx, lines 637-997):   *)
(* the schedule collection with its current-item control operations, the   *)
(* broadcast message with its per-client acknowledgement list, the         *)
(* settings and the phases; the consumer pages (ViewerDashboard,           *)
(* CrewDashboard, CurrentOnlyDashboard under ThemeProvider) with their     *)
(* polling callbacks, their countdown, their main block and their message  *)
(* popup; the admin schedule page and the admin settings form; and         *)
(* AuthProvider.  net holds the responses to the polls of a tab that are   *)
(* on their way, so that they can arrive in any order.                     *)
(*                                                                         *)
(* JavaScript values are modelled as follows.                              *)
(*   - a scalar that the code passes through String() (ids, timestamps)    *)
(*     is a record [t, v]: t is the JavaScript type ("str", "num",         *)
(*     "null"), v its decimal/string rendering;                            *)
(*   - a text (message text, client id) is a sequence of characters, so    *)
(*     that trim() has something to strip;                                 *)
(*   - an object is a function from its keys to its values, a request      *)
(*     body included; a key that is not supplied is not in the DOMAIN;     *)
(*   - an array is a sequence.                                             *)
(***************************************************************************)
EXTENDS Integers, Sequences, FiniteSets, TLC

VARIABLES schedule, now, res, message, settings, phases, view, call, net

vars == <<schedule, now, res, message, settings, phases, view, call, net>>

----------------------------------------------------------------------------
(* Bounds *)

MaxLen == 3
MaxClock == 2
\* the rows a collection holds in the specifications of the settings and of
\* the consumer pages
MaxRows == 1
\* the items of a schedule snapshot in the specification of the countdown
MaxSnapshot == 2
\* the rows of the schedule in the specification of the admin schedule page
MaxAdminRows == 2
\* the different tokens that logins return
MaxTokens == 3
\* the responses to one polling callback that are on their way at a time
MaxInflight == 2

----------------------------------------------------------------------------
(* JavaScript helpers *)

Str(s) == [t |-> "str", v |-> s]
Num(n) == [t |-> "num", v |-> ToString(n)]
Null == [t |-> "null", v |-> "null"]
Bool(b) == [t |-> "bool", v |-> IF b THEN "true" ELSE "false"]

\* Boolean(x), the truthiness of a scalar
Boolean(x) ==
  CASE x.t = "bool" -> x.v = "true"
    [] x.t = "str" -> x.v # ""
    [] x.t = "num" -> x.v \notin { "0", "NaN" }
    [] OTHER -> FALSE

\* String(x)
String(x) == [t |-> "str", v |-> x.v]

\* { ...a, ...b }
Spread(a, b) ==
  [k \in (DOMAIN a) \cup (DOMAIN b) |-> IF k \in DOMAIN b THEN b[k] ELSE a[k]]

Has(o, k) == k \in DOMAIN o

Min(a, b) == IF a < b THEN a ELSE b

\* Array.prototype.findIndex, given the set of the (1-based) positions whose
\* element satisfies the callback: the 0-based index of the first of them,
\* -1 when there is none
FindIndex(matches) ==
  IF matches = {} THEN -1
  ELSE (CHOOSE i \in matches : \A j \in matches : i <= j) - 1

\* Date.now(): the millisecond clock; several requests can be handled
\* within one millisecond
DateNow == now

\* function id()
id == String(Num(DateNow))

----------------------------------------------------------------------------
(* Schedule *)

\* the last request and the status of its response: op names the route,
\* arg is the input of the request that the properties refer to
Ok(op, arg) == [op |-> op, status |-> 200, arg |-> arg]
Err(op, code, arg) == [op |-> op, status |-> code, arg |-> arg]

\* function getCurrentIndex()
getCurrentIndex == FindIndex({ i \in DOMAIN schedule : schedule[i].is_current })

\* the schedule that app.post("/api/schedule") stores.  title stands for
\* the fields the handlers copy and never read (description, start_time,
\* end_time, phase_id, notes, people, groups are built the same way).
Posted(body) ==
  LET item == [id |-> id,
               title |-> IF Has(body, "title") /\ body.title # "" THEN body.title ELSE "Eintrag",
               is_current |-> Has(body, "is_current") /\ body.is_current]
      cleared == IF item.is_current
                 THEN [i \in DOMAIN schedule |-> Spread(schedule[i], [is_current |-> FALSE])]
                 ELSE schedule
  IN Append(cleared, item)

\* app.post("/api/schedule"); a full model bound refuses the request.
PostSchedule(body) ==
  /\ Len(schedule) < MaxLen
  /\ schedule' = Posted(body)
  /\ res' = Ok("post", Null)
  /\ UNCHANGED <<now, message, settings, phases, view, call, net>>

\* the status that app.put("/api/schedule/:id") answers and the schedule it
\* stores
Put(sid, body) ==
  LET i == FindIndex({ j \in DOMAIN schedule : String(schedule[j].id) = sid })
      next == Spread(schedule[i + 1], body)
  IN IF i = -1
     THEN [status |-> 404, schedule |-> schedule]
     ELSE [status |-> 200,
           schedule |->
             IF next.is_current
             THEN [j \in DOMAIN schedule |->
                     Spread(schedule[j], [is_current |-> String(schedule[j].id) = sid])]
             ELSE [schedule EXCEPT ![i + 1] = next]]

\* app.put("/api/schedule/:id"); op and arg name the request in the response
\* record (the reorder request of the admin page arrives at this handler too)
PutScheduleAs(op, arg, sid, body) ==
  /\ schedule' = Put(sid, body).schedule
  /\ res' = [op |-> op, status |-> Put(sid, body).status, arg |-> arg]
  /\ UNCHANGED <<now, message, settings, phases, view, call, net>>

PutSchedule(sid, body) == PutScheduleAs("put", sid, sid, body)

\* app.delete("/api/schedule/:id")
DeleteSchedule(sid) ==
  /\ schedule' = SelectSeq(schedule, LAMBDA s : String(s.id) # sid)
  /\ res' = Ok("delete", sid)
  /\ UNCHANGED <<now, message, settings, phases, view, call, net>>

\* a clear that drops the current items from the list (faulty variant)
ControlClearCurrent_Drop ==
  /\ schedule' = SelectSeq(schedule, LAMBDA s : ~s.is_current)
  /\ res' = Ok("clear-current", Null)
  /\ UNCHANGED <<now, message, settings, phases, view, call, net>>

\* app.post("/api/control/clear-current")
ControlClearCurrent ==
  /\ schedule' = [i \in DOMAIN schedule |-> Spread(schedule[i], [is_current |-> FALSE])]
  /\ res' = Ok("clear-current", Null)
  /\ UNCHANGED <<now, message, settings, phases, view, call, net>>

\* set-current without the existence test (faulty variant)
ControlSetCurrent_NoCheck(sid) ==
  /\ schedule' = [i \in DOMAIN schedule |->
                    Spread(schedule[i], [is_current |-> String(schedule[i].id) = sid])]
  /\ res' = Ok("set-current", sid)
  /\ UNCHANGED <<now, message, settings, phases, view, call, net>>

\* set-current that does not clear the other flags (faulty variant)
ControlSetCurrent_KeepOthers(sid) ==
  LET exists == \E i \in DOMAIN schedule : String(schedule[i].id) = sid
  IN IF ~exists
     THEN /\ res' = Err("set-current", 404, sid)
          /\ UNCHANGED <<schedule, now, message, settings, phases, view, call, net>>
     ELSE /\ schedule' = [i \in DOMAIN schedule |->
                            Spread(schedule[i],
                                   [is_current |-> schedule[i].is_current
                                                   \/ String(schedule[i].id) = sid])]
          /\ res' = Ok("set-current", sid)
          /\ UNCHANGED <<now, message, settings, phases, view, call, net>>

\* app.post("/api/control/set-current/:id")
ControlSetCurrent(sid) ==
  LET exists == \E i \in DOMAIN schedule : String(schedule[i].id) = sid
  IN IF ~exists
     THEN /\ res' = Err("set-current", 404, sid)
          /\ UNCHANGED <<schedule, now, message, settings, phases, view, call, net>>
     ELSE /\ schedule' = [i \in DOMAIN schedule |->
                            Spread(schedule[i], [is_current |-> String(schedule[i].id) = sid])]
          /\ res' = Ok("set-current", sid)
          /\ UNCHANGED <<now, message, settings, phases, view, call, net>>

\* nextIdx that wraps around at the end of the list (faulty variant)
NextIdx_Wrap(idx, len) == IF idx < 0 \/ len = 0 THEN 0 ELSE (idx + 1) % len

\* nextIdx of app.post("/api/control/next")
NextIdx(idx, len) == IF idx < 0 THEN 0 ELSE Min(len - 1, idx + 1)

\* prevIdx of app.post("/api/control/previous")
PrevIdx(idx) == IF idx <= 0 THEN 0 ELSE idx - 1

\* a map that sets the flag of item k and keeps the other flags (faulty variant)
MarkOnly_KeepOthers(k) ==
  [i \in DOMAIN schedule |->
     Spread(schedule[i], [is_current |-> schedule[i].is_current \/ (i - 1 = k)])]

\* a map that rebuilds every item from its id and the flag alone (faulty
\* variant)
MarkOnly_DropFields(k) ==
  [i \in DOMAIN schedule |-> [id |-> schedule[i].id, is_current |-> (i - 1 = k)]]

\* schedule.map((s, i) => ({ ...s, is_current: i === k }))
MarkOnly(k) ==
  [i \in DOMAIN schedule |-> Spread(schedule[i], [is_current |-> (i - 1 = k)])]

\* app.post("/api/control/next")
ControlNext ==
  /\ schedule' = MarkOnly(NextIdx(getCurrentIndex, Len(schedule)))
  /\ res' = Ok("next", Null)
  /\ UNCHANGED <<now, message, settings, phases, view, call, net>>

\* app.post("/api/control/previous")
ControlPrevious ==
  /\ schedule' = MarkOnly(PrevIdx(getCurrentIndex))
  /\ res' = Ok("previous", Null)
  /\ UNCHANGED <<now, message, settings, phases, view, call, net>>

\* newOrder.map(i => i.id)
IdsOf(arr) == [i \in DOMAIN arr |-> arr[i].id]

\* arrayMove(array, from, to) of @dnd-kit/sortable, 0-based: the element at
\* from is taken out and inserted at to
arrayMove(arr, from, to) ==
  LET n == Len(arr)
      without == [i \in 1..(n - 1) |-> IF i - 1 < from THEN arr[i] ELSE arr[i + 1]]
  IN [i \in 1..n |-> IF i - 1 < to THEN without[i]
                     ELSE IF i - 1 = to THEN arr[from + 1]
                     ELSE without[i - 1]]

\* handleDragEnd of AdminSchedule.jsx, with the page's rows equal to the
\* stored schedule: PUT /api/schedule/reorder with
\* body { order: [id, ...] }.  The server has no route of that name; the
\* request matches app.put("/api/schedule/:id") with id = "reorder".
Reorder(active, over) ==
  LET oldIndex == FindIndex({ i \in DOMAIN schedule : schedule[i].id = active })
      newIndex == FindIndex({ i \in DOMAIN schedule : schedule[i].id = over })
      newOrder == arrayMove(schedule, oldIndex, newIndex)
      ids == IdsOf(newOrder)
  IN /\ active # over
     /\ PutScheduleAs("reorder", ids, Str("reorder"), [order |-> ids])

\* the millisecond clock advances between requests
Tick ==
  /\ now < MaxClock
  /\ now' = now + 1
  /\ UNCHANGED <<schedule, res, message, settings, phases, view, call, net>>

----------------------------------------------------------------------------
(* Message *)

\* String.prototype.trim on a sequence of characters
RECURSIVE TrimLeft(_)
TrimLeft(t) == IF t # <<>> /\ Head(t) = " " THEN TrimLeft(Tail(t)) ELSE t

RECURSIVE TrimRight(_)
TrimRight(t) ==
  IF t # <<>> /\ t[Len(t)] = " " THEN TrimRight(SubSeq(t, 1, Len(t) - 1)) ELSE t

Trim(t) == TrimRight(TrimLeft(t))

\* Array.prototype.includes
Includes(arr, x) == \E i \in DOMAIN arr : arr[i] = x

\* function nowIso()
nowIso == Str(ToString(DateNow))

\* x || "" for an optional text field of a body or query
OrEmpty(o, k) == IF Has(o, k) THEN o[k] ELSE <<>>

\* the response body of app.get("/api/message") when the stored message is m
Respond(m, query) ==
  LET clientId == OrEmpty(query, "client_id")
  IN IF ~m.active THEN m
     ELSE IF clientId # <<>> /\ Includes(m.acked_by, clientId)
          THEN Spread(m, [active |-> FALSE])
          ELSE m

MessageFor(query) == Respond(message, query)

\* app.get("/api/message")
GetMessage(query) ==
  /\ res' = [op |-> "get-message", status |-> 200, arg |-> query, body |-> MessageFor(query)]
  /\ UNCHANGED <<schedule, now, message, settings, phases, view, call, net>>

\* a post that keeps the acknowledgements of the replaced message (faulty variant)
PostMessage_KeepAcks(body) ==
  LET text == OrEmpty(body, "text")
  IN IF text = <<>> \/ Trim(text) = <<>>
     THEN /\ res' = Err("post-message", 400, body)
          /\ UNCHANGED <<schedule, now, message, settings, phases, view, call, net>>
     ELSE /\ message' = [id |-> Num(DateNow),
                         text |-> Trim(text),
                         active |-> TRUE,
                         created |-> nowIso,
                         acked_by |-> message.acked_by]
          /\ res' = Ok("post-message", body)
          /\ UNCHANGED <<schedule, now, settings, phases, view, call, net>>

\* a post that tests the text before trimming it only (faulty variant)
PostMessage_NoTrimTest(body) ==
  LET text == OrEmpty(body, "text")
  IN IF text = <<>>
     THEN /\ res' = Err("post-message", 400, body)
          /\ UNCHANGED <<schedule, now, message, settings, phases, view, call, net>>
     ELSE /\ message' = [id |-> Num(DateNow),
                         text |-> Trim(text),
                         active |-> TRUE,
                         created |-> nowIso,
                         acked_by |-> <<>>]
          /\ res' = Ok("post-message", body)
          /\ UNCHANGED <<schedule, now, settings, phases, view, call, net>>

\* app.post("/api/message")
PostMessage(body) ==
  LET text == OrEmpty(body, "text")
  IN IF text = <<>> \/ Trim(text) = <<>>
     THEN /\ res' = Err("post-message", 400, body)
          /\ UNCHANGED <<schedule, now, message, settings, phases, view, call, net>>
     ELSE /\ message' = [id |-> Num(DateNow),
                         text |-> Trim(text),
                         active |-> TRUE,
                         created |-> nowIso,
                         acked_by |-> <<>>]
          /\ res' = Ok("post-message", body)
          /\ UNCHANGED <<schedule, now, settings, phases, view, call, net>>

\* an ack that pushes without the includes test (faulty variant)
AckMessage_AlwaysPush(body) ==
  LET cid == Trim(OrEmpty(body, "client_id"))
  IN IF cid = <<>>
     THEN /\ res' = Err("ack", 400, body)
          /\ UNCHANGED <<schedule, now, message, settings, phases, view, call, net>>
     ELSE /\ message' = [message EXCEPT !.acked_by = Append(@, cid)]
          /\ res' = Ok("ack", body)
          /\ UNCHANGED <<schedule, now, settings, phases, view, call, net>>

\* the message that app.post("/api/message/ack") stores for the trimmed
\* client id cid
Acked(m, cid) ==
  IF Includes(m.acked_by, cid) THEN m ELSE [m EXCEPT !.acked_by = Append(@, cid)]

\* app.post("/api/message/ack"); acked_by is an array in every state that
\* starts from defaultMessage, so the Array.isArray repair never applies
AckMessage(body) ==
  LET cid == Trim(OrEmpty(body, "client_id"))
  IN IF cid = <<>>
     THEN /\ res' = Err("ack", 400, body)
          /\ UNCHANGED <<schedule, now, message, settings, phases, view, call, net>>
     ELSE /\ message' = Acked(message, cid)
          /\ res' = Ok("ack", body)
          /\ UNCHANGED <<schedule, now, settings, phases, view, call, net>>

\* a clear that empties acked_by instead of clearing active (faulty variant)
ClearMessage_ResetAcks ==
  /\ message' = [message EXCEPT !.acked_by = <<>>]
  /\ res' = Ok("clear-message", Null)
  /\ UNCHANGED <<schedule, now, settings, phases, view, call, net>>

\* app.post("/api/message/clear")
ClearMessage ==
  /\ message' = [message EXCEPT !.active = FALSE]
  /\ res' = Ok("clear-message", Null)
  /\ UNCHANGED <<schedule, now, settings, phases, view, call, net>>

----------------------------------------------------------------------------
(* Settings *)

\* const defaultSettings
defaultSettings ==
  [event_name |-> Str("Event"),
   event_date |-> Str(""),
   background_color |-> Str("#0b0b0f"),
   surface_color |-> Str("#12121a"),
   text_color |-> Str("#ffffff"),
   primary_color |-> Str("#7c3aed"),
   accent_color |-> Str("#22c55e"),
   is_paused |-> Bool(FALSE),
   auto_advance |-> Bool(FALSE),
   auto_scroll |-> Bool(TRUE),
   show_countdown |-> Bool(TRUE)]

\* app.get("/api/settings")
GetSettings ==
  /\ res' = [op |-> "get-settings", status |-> 200, arg |-> Null, body |-> settings]
  /\ UNCHANGED <<schedule, now, message, settings, phases, view, call, net>>

\* app.post("/api/settings")
PostSettings(body) ==
  /\ settings' = Spread(settings, body)
  /\ res' = Ok("post-settings", body)
  /\ UNCHANGED <<schedule, now, message, phases, view, call, net>>

\* PUT /api/settings, the request of handleSaveSettings of AdminSettings.jsx.
\* The server registers GET and POST for this path and nothing else; express
\* answers a request that no route matches with 404.
PutSettings(body) ==
  /\ res' = Err("put-settings", 404, body)
  /\ UNCHANGED <<schedule, now, message, settings, phases, view, call, net>>

\* the settings after app.post("/api/control/pause") on the settings s
PauseToggled(s) == Spread(s, [is_paused |-> Bool(~Boolean(s.is_paused))])

\* app.post("/api/control/pause")
ControlPause ==
  /\ settings' = PauseToggled(settings)
  /\ res' = Ok("pause", Null)
  /\ UNCHANGED <<schedule, now, message, phases, view, call, net>>

----------------------------------------------------------------------------
(* Phases, people and groups *)

\* app.post("/api/phases"); a full model bound refuses the request
PostPhase(body) ==
  LET phase == [id |-> id,
                name |-> IF Has(body, "name") /\ body.name # "" THEN body.name ELSE "Phase",
                color |-> IF Has(body, "color") /\ body.color # "" THEN body.color ELSE "#71717a"]
  IN /\ Len(phases) < MaxRows
     /\ phases' = Append(phases, phase)
     /\ res' = Ok("post-phase", Null)
     /\ UNCHANGED <<schedule, now, message, settings, view, call, net>>

\* let people, let groups: the collections as the server starts with them;
\* no request of the model writes them
people == <<>>
groups == <<>>

----------------------------------------------------------------------------
(* Consumer pages: ThemeProvider with ViewerDashboard, CrewDashboard or      *)
(* CurrentOnlyDashboard in one browser tab.  view holds the React state of   *)
(* the tab, call the callback that ran last with the outcome of its          *)
(* requests.                                                                 *)

Pages == { "viewer", "crew", "current" }

\* useState of ThemeProvider
themeSettings ==
  [event_name |-> Str("Event Dashboard"),
   event_date |-> Str(""),
   primary_color |-> Str("#3b82f6"),
   accent_color |-> Str("#ef4444"),
   background_color |-> Str("#09090b"),
   surface_color |-> Str("#18181b"),
   text_color |-> Str("#fafafa"),
   is_paused |-> Bool(FALSE),
   current_item_id |-> Null,
   show_countdown |-> Bool(TRUE),
   auto_scroll |-> Bool(TRUE)]

\* the useState initial values of a page and of ThemeProvider; the crew
\* page has two more snapshots, and the key of the message it dismissed
\* last in localStorage (null in a browser that dismissed none)
Mount(page) ==
  LET common == [page |-> page,
                 schedule |-> <<>>,
                 phases |-> <<>>,
                 message |-> Null,
                 showPopup |-> FALSE,
                 settings |-> themeSettings,
                 countdown |-> [hours |-> 0, minutes |-> 0, seconds |-> 0]]
  IN IF page = "crew"
     THEN Spread(common, [people |-> <<>>, groups |-> <<>>, dismissed |-> Null])
     ELSE common

\* getClientId: the viewer and the current-only page share a localStorage
\* key, the crew page has its own
clientId(page) == IF page = "crew" THEN <<"y">> ELSE <<"x">>

\* the requests of a callback that failed (network error or a status
\* outside 2xx make axios reject)
Polled(fn, failed) == [fn |-> fn, failed |-> failed]

\* a fetchData whose catch empties the snapshots (faulty variant)
ViewerFetchData_Reset(failed) ==
  /\ view.page = "viewer"
  /\ view' = IF failed = {}
             THEN [view EXCEPT !.schedule = schedule, !.phases = phases]
             ELSE [view EXCEPT !.schedule = <<>>, !.phases = <<>>]
  /\ call' = Polled("fetchData", failed)
  /\ UNCHANGED <<schedule, now, res, message, settings, phases, net>>

\* fetchData of ViewerDashboard.jsx: Promise.all of GET /schedule and GET
\* /phases, both snapshots set when both requests succeed (the server
\* answers with arrays, which Array.isArray keeps), none otherwise
ViewerFetchData(failed) ==
  /\ view.page = "viewer"
  /\ view' = IF failed = {}
             THEN [view EXCEPT !.schedule = schedule, !.phases = phases]
             ELSE view
  /\ call' = Polled("fetchData", failed)
  /\ UNCHANGED <<schedule, now, res, message, settings, phases, net>>

\* fetchData of CurrentOnlyDashboard.jsx: as the viewer's, with data || []
CurrentOnlyFetchData(failed) ==
  /\ view.page = "current"
  /\ view' = IF failed = {}
             THEN [view EXCEPT !.schedule = schedule, !.phases = phases]
             ELSE view
  /\ call' = Polled("fetchData", failed)
  /\ UNCHANGED <<schedule, now, res, message, settings, phases, net>>

\* fetchData of CrewDashboard.jsx: Promise.allSettled of four requests,
\* each fulfilled one sets its snapshot
CrewFetchData(failed) ==
  /\ view.page = "crew"
  /\ view' = [view EXCEPT
               !.schedule = IF "schedule" \in failed THEN @ ELSE schedule,
               !.phases = IF "phases" \in failed THEN @ ELSE phases,
               !.people = IF "people" \in failed THEN @ ELSE people,
               !.groups = IF "groups" \in failed THEN @ ELSE groups]
  /\ call' = Polled("fetchData", failed)
  /\ UNCHANGED <<schedule, now, res, message, settings, phases, net>>

\* getDismissKey(msg) of CrewDashboard.jsx: `${created}__${text}`, with ''
\* for a missing part.  created is null or an ISO timestamp, which holds
\* no underscore, so the key determines the pair and the pair stands for it.
getDismissKey(msg) ==
  IF msg = Null THEN [created |-> "", text |-> <<>>]
  ELSE [created |-> IF msg.created = Null THEN "" ELSE msg.created.v, text |-> msg.text]

\* the argument of setShowPopup in fetchMessage: the viewer and the
\* current-only page show an active message with a text, the crew page
\* only when its key is not the dismissed key
ShouldShow(v, msg) ==
  /\ msg.active
  /\ msg.text # <<>>
  /\ v.page = "crew" => getDismissKey(msg) # v.dismissed

\* fetchMessage of the three pages: GET /message?client_id=..., then
\* setMessage and setShowPopup
FetchMessage(failed) ==
  LET msg == MessageFor([client_id |-> clientId(view.page)])
  IN /\ view' = IF failed = {}
                THEN [view EXCEPT !.message = msg, !.showPopup = ShouldShow(view, msg)]
                ELSE view
     /\ call' = Polled("fetchMessage", failed)
     /\ UNCHANGED <<schedule, now, res, message, settings, phases, net>>

\* fetchSettings of ThemeProvider
FetchSettings(failed) ==
  /\ view' = IF failed = {} THEN [view EXCEPT !.settings = settings] ELSE view
  /\ call' = Polled("fetchSettings", failed)
  /\ UNCHANGED <<schedule, now, res, message, settings, phases, net>>

\* the responses to the callback fn of the tab that are on their way
InFlight(fn) == { r \in net : r.fn = fn }

\* what the server answers to the GET requests of the callback fn
Answer(fn) ==
  CASE fn = "fetchData" -> [schedule |-> schedule, phases |-> phases]
    [] fn = "fetchMessage" -> MessageFor([client_id |-> clientId(view.page)])
    [] fn = "fetchSettings" -> settings

\* setInterval starts the callback fn whether or not an earlier call has
\* returned: the server answers its requests, the response is on its way
\* (at most MaxInflight responses to one callback at a time)
Poll(fn) ==
  /\ Cardinality(InFlight(fn)) < MaxInflight
  /\ net' = net \cup { [fn |-> fn, data |-> Answer(fn)] }
  /\ UNCHANGED <<schedule, now, res, message, settings, phases, view, call>>

\* a then-part of fetchData that sets the phases alone (faulty variant)
Received_KeepSchedule(v, r) ==
  CASE r.fn = "fetchData" -> [v EXCEPT !.phases = r.data.phases]
    [] r.fn = "fetchMessage" ->
         [v EXCEPT !.message = r.data, !.showPopup = ShouldShow(v, r.data)]
    [] r.fn = "fetchSettings" -> [v EXCEPT !.settings = r.data]

\* the state of the page after the then-part of the callback of response r
\* (fetchData of the viewer and the current-only page)
Received(v, r) ==
  CASE r.fn = "fetchData" ->
         [v EXCEPT !.schedule = r.data.schedule, !.phases = r.data.phases]
    [] r.fn = "fetchMessage" ->
         [v EXCEPT !.message = r.data, !.showPopup = ShouldShow(v, r.data)]
    [] r.fn = "fetchSettings" -> [v EXCEPT !.settings = r.data]

\* a response arrives, in any order, and the callback goes on after its
\* await
Receive(r) ==
  /\ r \in net
  /\ net' = net \ { r }
  /\ view' = Received(view, r)
  /\ call' = Polled(r.fn, {})
  /\ UNCHANGED <<schedule, now, res, message, settings, phases>>

\* a response is lost: axios rejects and the catch logs the error
Fail(r) ==
  /\ r \in net
  /\ net' = net \ { r }
  /\ call' = Polled(r.fn, { r.fn })
  /\ UNCHANGED <<schedule, now, res, message, settings, phases, view>>

\* handleAck of ViewerDashboard.jsx and CurrentOnlyDashboard.jsx, the OK
\* button of the popup: POST /message/ack with the client id, then
\* setShowPopup(false); a failed request is logged
HandleAck(failed) ==
  /\ view.page \in { "viewer", "current" }
  /\ view.showPopup
  /\ view.message.text # <<>>
  /\ IF failed = {}
     THEN /\ message' = Acked(message, Trim(clientId(view.page)))
          /\ res' = Ok("ack", [client_id |-> clientId(view.page)])
          /\ view' = [view EXCEPT !.showPopup = FALSE]
     ELSE UNCHANGED <<message, res, view>>
  /\ call' = Polled("handleAck", failed)
  /\ UNCHANGED <<schedule, now, settings, phases, net>>

\* handleAck of CrewDashboard.jsx: the key of the shown message is stored
\* as dismissed, the popup closed and the message of the page set inactive
\* before POST /message/ack is sent; a failed request is logged
CrewHandleAck(failed) ==
  /\ view.page = "crew"
  /\ view.showPopup
  /\ view.message.text # <<>>
  /\ view' = [view EXCEPT !.dismissed = getDismissKey(view.message),
                          !.showPopup = FALSE,
                          !.message = Spread(@, [active |-> FALSE])]
  /\ IF failed = {}
     THEN /\ message' = Acked(message, Trim(clientId(view.page)))
          /\ res' = Ok("ack", [client_id |-> clientId(view.page)])
     ELSE UNCHANGED <<message, res>>
  /\ call' = Polled("handleAck", failed)
  /\ UNCHANGED <<schedule, now, settings, phases, net>>

\* schedule.find(item => item.is_current) on the schedule snapshot: the
\* first item flagged current, Null for undefined
currentItem(v) ==
  LET i == FindIndex({ j \in DOMAIN v.schedule : v.schedule[j].is_current })
  IN IF i = -1 THEN Null ELSE v.schedule[i + 1]

\* a main block that shows the item only while not paused (faulty variant)
CurrentItemBlock_HidePaused(v) ==
  IF currentItem(v) # Null /\ ~Boolean(v.settings.is_paused)
  THEN [block |-> "item",
        item |-> currentItem(v),
        countdown |-> Boolean(v.settings.show_countdown)]
  ELSE [block |-> "waiting", item |-> Null, countdown |-> FALSE]

\* the main block of the rendered page: the current item with its countdown
\* block when settings.show_countdown && !settings.is_paused, or the
\* "Warte auf Start..." placeholder (the same JSX on the three pages)
CurrentItemBlock(v) ==
  IF currentItem(v) # Null
  THEN [block |-> "item",
        item |-> currentItem(v),
        countdown |-> Boolean(v.settings.show_countdown) /\ ~Boolean(v.settings.is_paused)]
  ELSE [block |-> "waiting", item |-> Null, countdown |-> FALSE]

----------------------------------------------------------------------------
(* Countdown of the pages.  A time is a number of milliseconds since the    *)
(* local midnight of some day, on days without a clock change.              *)

MsPerSecond == 1000
MsPerMinute == 60000
MsPerHour == 3600000
MsPerDay == 24 * MsPerHour

DigitValue ==
  ("0" :> 0) @@ ("1" :> 1) @@ ("2" :> 2) @@ ("3" :> 3) @@ ("4" :> 4) @@
  ("5" :> 5) @@ ("6" :> 6) @@ ("7" :> 7) @@ ("8" :> 8) @@ ("9" :> 9)

\* String.prototype.split(':') on a sequence of characters
RECURSIVE SplitColon(_)
SplitColon(t) ==
  LET k == FindIndex({ i \in DOMAIN t : t[i] = ":" })
  IN IF k = -1 THEN << t >>
     ELSE << SubSeq(t, 1, k) >> \o SplitColon(SubSeq(t, k + 2, Len(t)))

\* the value of a string of decimal digits, 0 for the empty string
RECURSIVE DigitsValue(_)
DigitsValue(t) ==
  IF t = <<>> THEN 0
  ELSE 10 * DigitsValue(SubSeq(t, 1, Len(t) - 1)) + DigitValue[t[Len(t)]]

\* Number(s) for a string of digits and letters: its value, or NaN
Number(t) ==
  IF \A i \in DOMAIN t : t[i] \in DOMAIN DigitValue
  THEN [nan |-> FALSE, n |-> DigitsValue(t)]
  ELSE [nan |-> TRUE, n |-> 0]

\* x || 0 on a number
OrZero(x) == IF x.nan THEN 0 ELSE x.n

\* date.setHours(h, m, 0, 0): h hours and m minutes after the midnight of
\* the date's day, rolling over into later days
SetHours(date, h, m) == (date \div MsPerDay) * MsPerDay + h * MsPerHour + m * MsPerMinute

\* a countdown that splits the difference without the diff > 0 test
\* (faulty variant)
Countdown_NoFloor(v, nowDate, endDate) ==
  LET item == currentItem(v)
      zero == [hours |-> 0, minutes |-> 0, seconds |-> 0]
  IN IF item = Null \/ Boolean(v.settings.is_paused) THEN zero
     ELSE LET text == IF item.end_time # <<>> THEN item.end_time
                      ELSE <<"0", "0", ":", "0", "0">>
              parts == SplitColon(text)
              endHours == OrZero(Number(parts[1]))
              endMinutes == IF Len(parts) >= 2 THEN OrZero(Number(parts[2])) ELSE 0
              diff == SetHours(endDate, endHours, endMinutes) - nowDate
          IN [hours |-> diff \div MsPerHour,
              minutes |-> (diff % MsPerHour) \div MsPerMinute,
              seconds |-> (diff % MsPerMinute) \div MsPerSecond]

\* the value calculateCountdown passes to setCountdown; nowDate and endDate
\* are the times of its two new Date() calls
Countdown(v, nowDate, endDate) ==
  LET item == currentItem(v)
      zero == [hours |-> 0, minutes |-> 0, seconds |-> 0]
  IN IF item = Null \/ Boolean(v.settings.is_paused) THEN zero
     ELSE LET text == IF item.end_time # <<>> THEN item.end_time
                      ELSE <<"0", "0", ":", "0", "0">>
              parts == SplitColon(text)
              endHours == OrZero(Number(parts[1]))
              endMinutes == IF Len(parts) >= 2 THEN OrZero(Number(parts[2])) ELSE 0
              diff == SetHours(endDate, endHours, endMinutes) - nowDate
          IN IF diff > 0
             THEN [hours |-> diff \div MsPerHour,
                   minutes |-> (diff % MsPerHour) \div MsPerMinute,
                   seconds |-> (diff % MsPerMinute) \div MsPerSecond]
             ELSE zero

\* calculateCountdown of ViewerDashboard.jsx (the crew page, the
\* current-only page and the admin overview have the same function)
CalculateCountdown(nowDate, endDate) ==
  /\ view' = [view EXCEPT !.countdown = Countdown(view, nowDate, endDate)]
  /\ call' = [fn |-> "calculateCountdown", failed |-> {}, now |-> nowDate, endTime |-> endDate]
  /\ UNCHANGED <<schedule, now, res, message, settings, phases, net>>

----------------------------------------------------------------------------
(* The admin pages *)

\* AdminSchedule.jsx: the state of the page before its first load
AdminScheduleMount == [page |-> "admin-schedule", schedule |-> <<>>, phases |-> <<>>]

\* what fetchData of AdminSchedule.jsx sets from the two GET responses
AdminFetched(v, s, p) == [v EXCEPT !.schedule = s, !.phases = p]

\* fetchData of AdminSchedule.jsx (on mount, and after a submit or delete)
AdminFetchData ==
  /\ view' = AdminFetched(view, schedule, phases)
  /\ call' = Polled("fetchData", {})
  /\ UNCHANGED <<schedule, now, res, message, settings, phases, net>>

\* handleSubmit of AdminSchedule.jsx: with an editingItem (a row of the
\* page) PUT /api/schedule/<id> with the form, else POST /api/schedule with
\* the form; then fetchData.  A request that fails throws, and the handler
\* ends before fetchData.  The response record names the two requests
\* "edit" and "create".
HandleSubmit(editingItem, formData) ==
  IF editingItem # Null
  THEN LET sid == String(editingItem.id)
           r == Put(sid, formData)
       IN /\ schedule' = r.schedule
          /\ res' = [op |-> "edit", status |-> r.status,
                     arg |-> [id |-> sid, body |-> formData]]
          /\ view' = IF r.status = 200 THEN AdminFetched(view, schedule', phases) ELSE view
          /\ call' = Polled("handleSubmit", IF r.status = 200 THEN {} ELSE { "put" })
          /\ UNCHANGED <<now, message, settings, phases, net>>
  ELSE /\ Len(schedule) < MaxLen
       /\ schedule' = Posted(formData)
       /\ res' = Ok("create", [body |-> formData])
       /\ view' = AdminFetched(view, schedule', phases)
       /\ call' = Polled("handleSubmit", {})
       /\ UNCHANGED <<now, message, settings, phases, net>>

\* handleDragEnd of AdminSchedule.jsx: the rows of the page are moved, then
\* PUT /api/schedule/reorder with body { order: [id, ...] }; a failure is
\* logged.  A drop outside the list or on the dragged row returns at once.
\* The response record names the request "drag".
HandleDragEnd(active, over) ==
  LET oldIndex == FindIndex({ i \in DOMAIN view.schedule : view.schedule[i].id = active })
      newIndex == FindIndex({ i \in DOMAIN view.schedule : view.schedule[i].id = over })
      newOrder == arrayMove(view.schedule, oldIndex, newIndex)
      r == Put(Str("reorder"), [order |-> IdsOf(newOrder)])
  IN /\ over # Null
     /\ active # over
     /\ view' = [view EXCEPT !.schedule = newOrder]
     /\ schedule' = r.schedule
     /\ res' = [op |-> "drag", status |-> r.status, arg |-> IdsOf(newOrder)]
     /\ call' = Polled("handleDragEnd", IF r.status = 200 THEN {} ELSE { "reorder" })
     /\ UNCHANGED <<now, message, settings, phases, net>>

----------------------------------------------------------------------------
(* The settings form of AdminSettings.jsx *)

\* a ?? b ?? fallback over the keys a and b of the object o
Coalesce(o, a, b, fallback) ==
  IF Has(o, a) /\ o[a] # Null THEN o[a]
  ELSE IF Has(o, b) /\ o[b] # Null THEN o[b]
  ELSE fallback

\* normalizedSettings of AdminSettings.jsx
Normalized(s) ==
  Spread(s,
    [event_name |-> Coalesce(s, "event_name", "eventName", Str("Event Dashboard")),
     event_date |-> Coalesce(s, "event_date", "eventDate", Str("")),
     show_countdown |-> Bool(Boolean(Coalesce(s, "show_countdown", "showCountdown", Bool(TRUE)))),
     auto_scroll |-> Bool(Boolean(Coalesce(s, "auto_scroll", "autoScroll", Bool(FALSE)))),
     auto_advance |-> Bool(Boolean(Coalesce(s, "auto_advance", "autoAdvance", Bool(TRUE))))])

\* the settings page after its first render and its effects: the settings
\* of ThemeProvider and the form filled from them
FormMount ==
  [page |-> "admin-settings", settings |-> themeSettings, formData |-> Normalized(themeSettings)]

\* an onChange handler of the form: setFormData(p => ({ ...p, [key]: value }))
FormEdit(key, value) ==
  /\ view.page = "admin-settings"
  /\ view' = [view EXCEPT !.formData = Spread(@, (key :> value))]
  /\ call' = Polled("onChange", {})
  /\ UNCHANGED <<schedule, now, res, message, settings, phases, net>>

\* resetToDefaults of AdminSettings.jsx
ResetToDefaults ==
  /\ view.page = "admin-settings"
  /\ view' = [view EXCEPT !.formData =
                 Spread(@, [primary_color |-> Str("#3b82f6"),
                            accent_color |-> Str("#ef4444"),
                            background_color |-> Str("#09090b"),
                            surface_color |-> Str("#18181b"),
                            text_color |-> Str("#fafafa")])]
  /\ call' = Polled("resetToDefaults", {})
  /\ UNCHANGED <<schedule, now, res, message, settings, phases, net>>

\* fetchSettings of ThemeProvider while the settings page is shown.  A
\* response is a new object, so setSettings(response.data) changes the
\* dependency of useMemo whatever the response holds: normalizedSettings is
\* computed again and the effect on it sets the form.
FormFetchSettings(failed) ==
  /\ view.page = "admin-settings"
  /\ view' = IF failed = {}
             THEN [view EXCEPT !.settings = settings, !.formData = Normalized(settings)]
             ELSE view
  /\ call' = Polled("fetchSettings", failed)
  /\ UNCHANGED <<schedule, now, res, message, settings, phases, net>>

\* handleSaveSettings of AdminSettings.jsx: PUT /api/settings with the form;
\* the server has no such route and answers 404, the catch shows a toast
\* and fetchSettings is not reached
HandleSaveSettings ==
  /\ view.page = "admin-settings"
  /\ res' = Err("put-settings", 404, view.formData)
  /\ call' = Polled("handleSaveSettings", { "settings" })
  /\ UNCHANGED <<schedule, now, message, settings, phases, view, net>>

----------------------------------------------------------------------------
(* AuthProvider *)

\* localStorage.getItem(key): null for a key that is not stored
getItem(storage, key) == IF Has(storage, key) THEN storage[key] ELSE Null

\* localStorage.setItem(key, value): the value is stored as a string
setItem(storage, key, value) == Spread(storage, (key :> String(value)))

\* localStorage.removeItem(key)
removeItem(storage, key) == [k \in (DOMAIN storage) \ { key } |-> storage[k]]

\* useState of AuthProvider, next to the localStorage of the browser
AuthMount(storage) ==
  [page |-> "auth", token |-> Null, isAuthenticated |-> FALSE, loading |-> TRUE,
   localStorage |-> storage]

\* the effect of AuthProvider that runs once after the first render
AuthLoad ==
  LET stored == getItem(view.localStorage, "token")
  IN /\ view.page = "auth"
     /\ view.loading
     /\ view' = IF Boolean(stored)
                THEN [view EXCEPT !.token = stored, !.isAuthenticated = TRUE, !.loading = FALSE]
                ELSE [view EXCEPT !.loading = FALSE]
     /\ call' = Polled("authLoad", {})
     /\ UNCHANGED <<schedule, now, res, message, settings, phases, net>>

\* res?.data?.token of a response; a rejected request has no data
TokenOf(response) ==
  IF response.status = 200 /\ Has(response.data, "token") THEN response.data.token ELSE Null

\* a logout that leaves the stored token behind (faulty variant)
Logout_KeepStored ==
  /\ view.page = "auth"
  /\ view' = [view EXCEPT !.token = Null, !.isAuthenticated = FALSE]
  /\ call' = Polled("logout", {})
  /\ UNCHANGED <<schedule, now, res, message, settings, phases, net>>

\* login of AuthProvider, given the response of POST /api/auth/login: a
\* rejected request and a response without a token throw before anything
\* is set
Login(response) ==
  LET newToken == TokenOf(response)
      thrown == response.status # 200 \/ ~Boolean(newToken)
  IN /\ view.page = "auth"
     /\ view' = IF thrown THEN view
                ELSE [view EXCEPT !.localStorage = setItem(@, "token", newToken),
                                  !.token = newToken,
                                  !.isAuthenticated = TRUE]
     /\ res' = [op |-> "login", status |-> response.status, arg |-> response.data]
     /\ call' = Polled("login", IF thrown THEN { "login" } ELSE {})
     /\ UNCHANGED <<schedule, now, message, settings, phases, net>>

\* logout of AuthProvider
Logout ==
  /\ view.page = "auth"
  /\ view' = [view EXCEPT !.localStorage = removeItem(@, "token"),
                          !.token = Null,
                          !.isAuthenticated = FALSE]
  /\ call' = Polled("logout", {})
  /\ UNCHANGED <<schedule, now, res, message, settings, phases, net>>

\* the page is loaded again: the state of AuthProvider starts over, the
\* localStorage stays
AuthReload ==
  /\ view.page = "auth"
  /\ view' = AuthMount(view.localStorage)
  /\ call' = Polled("mount", {})
  /\ UNCHANGED <<schedule, now, res, message, settings, phases, net>>

----------------------------------------------------------------------------
(* Request inputs *)

\* an id that a body can carry: the id of the first item created
BodyIds == { Str("1") }

\* bodies of POST /api/schedule: nothing, an empty title, a title, the flag
\* cleared or set, a title with the flag set
PostBodies ==
  { <<>>, [title |-> ""], [title |-> "a"], [is_current |-> FALSE],
    [is_current |-> TRUE], [title |-> "a", is_current |-> TRUE] }

\* bodies of PUT /api/schedule/:id: nothing, a title, the flag cleared or
\* set, a title with the flag set, an id
PutBodies ==
  { <<>>, [title |-> "a"], [is_current |-> FALSE], [is_current |-> TRUE],
    [title |-> "a", is_current |-> TRUE] }
  \cup { [id |-> b] : b \in BodyIds }

\* path parameters are strings
PathIds == { Str(ToString(n)) : n \in 1..MaxClock }

\* the ids of the rows of the admin page, the candidates of a drag and drop
RowIds == { schedule[i].id : i \in DOMAIN schedule }

\* message texts: missing, empty, blank, plain and padded
Texts == { <<>>, <<" ">>, <<"a">>, <<" ", "a">>, <<"b">> }

TextBodies == { <<>> } \cup { [text |-> t] : t \in Texts }

\* client ids as sent by a client: the viewer's, the same padded with a
\* blank, the crew page's, an empty one and a blank one
ClientIds == { <<"x">>, <<" ", "x">>, <<"y">>, <<>>, <<" ">> }

ClientBodies == { <<>> } \cup { [client_id |-> c] : c \in ClientIds }

\* bodies of a settings request: nothing, one key, two keys, a key that the
\* defaults do not have, and is_paused as true and as null
SettingsBodies ==
  { <<>>,
    [event_name |-> Str("Gala")],
    [event_name |-> Str("Gala"), show_countdown |-> Bool(FALSE)],
    [logo |-> Str("a.png")],
    [is_paused |-> Bool(TRUE)],
    [is_paused |-> Null] }

Init ==
  /\ schedule = <<>>
  /\ now = 1
  /\ res = Ok("init", Null)
  /\ message = [id |-> Null, text |-> <<>>, active |-> FALSE, created |-> Null, acked_by |-> <<>>]
  /\ settings = defaultSettings
  /\ phases = <<>>
  /\ view = Mount("viewer")
  /\ call = Polled("mount", {})
  /\ net = {}

Next ==
  \/ Tick
  \/ \E body \in PostBodies : PostSchedule(body)
  \/ \E sid \in PathIds, body \in PutBodies : PutSchedule(sid, body)
  \/ \E sid \in PathIds : DeleteSchedule(sid)
  \/ ControlClearCurrent
  \/ \E sid \in PathIds : ControlSetCurrent(sid)
  \/ ControlNext
  \/ ControlPrevious
  \/ \E active \in RowIds, over \in RowIds : Reorder(active, over)

Spec == Init /\ [][Next]_vars

NextMessage ==
  \/ Tick
  \/ \E body \in TextBodies : PostMessage(body)
  \/ \E body \in ClientBodies : AckMessage(body)
  \/ ClearMessage
  \/ \E query \in ClientBodies : GetMessage(query)

SpecMessage == Init /\ [][NextMessage]_vars

NextSettings ==
  \/ GetSettings
  \/ \E body \in SettingsBodies : PostSettings(body)
  \/ \E body \in SettingsBodies : PutSettings(body)
  \/ ControlPause
  \/ \E body \in PostBodies : Len(schedule) < MaxRows /\ PostSchedule(body)
  \/ ControlNext

SpecSettings == Init /\ [][NextSettings]_vars

\* a tab opens on any of the three pages
InitPages ==
  /\ schedule = <<>>
  /\ now = 1
  /\ res = Ok("init", Null)
  /\ message = [id |-> Null, text |-> <<>>, active |-> FALSE, created |-> Null, acked_by |-> <<>>]
  /\ settings = defaultSettings
  /\ phases = <<>>
  /\ view \in { Mount(page) : page \in Pages }
  /\ call = Polled("mount", {})
  /\ net = {}

NextPages ==
  \/ Len(schedule) < MaxRows /\ PostSchedule([is_current |-> TRUE])
  \/ ControlClearCurrent
  \/ ControlPause
  \/ PostPhase(<<>>)
  \/ PostMessage([text |-> <<"a">>])
  \/ \E failed \in SUBSET { "schedule", "phases" } : ViewerFetchData(failed)
  \/ \E failed \in SUBSET { "schedule", "phases" } : CurrentOnlyFetchData(failed)
  \/ \E failed \in SUBSET { "schedule", "phases", "people", "groups" } : CrewFetchData(failed)
  \/ \E failed \in SUBSET { "message" } : FetchMessage(failed)
  \/ \E failed \in SUBSET { "settings" } : FetchSettings(failed)

SpecPages == InitPages /\ [][NextPages]_vars

\* end_time values of stored items: four of the form HH:MM, the empty
\* string, one without a colon and one with letters
EndTimes ==
  { <<"0", "0", ":", "0", "0">>, <<"0", "0", ":", "0", "1">>,
    <<"1", "2", ":", "3", "0">>, <<"2", "3", ":", "5", "9">>,
    <<>>, <<"7">>, <<"a", ":", "5">> }

\* the fields of a schedule item that calculateCountdown reads
SnapshotItems == { [is_current |-> c, end_time |-> e] : c \in BOOLEAN, e \in EndTimes }

\* schedule snapshots of at most MaxSnapshot items
Snapshots == UNION { [1..n -> SnapshotItems] : n \in 0..MaxSnapshot }

\* times of day of the first new Date(): around midnight, around a full
\* minute, around 12:30 and the last millisecond of the day
ClockSamples == { 0, 1, 59999, 60000, 44999001, 45000000, 86399999 }

\* a page that has polled some schedule and some value of is_paused
InitCountdown ==
  /\ schedule = <<>>
  /\ now = 1
  /\ res = Ok("init", Null)
  /\ message = [id |-> Null, text |-> <<>>, active |-> FALSE, created |-> Null, acked_by |-> <<>>]
  /\ settings = defaultSettings
  /\ phases = <<>>
  /\ \E snapshot \in Snapshots, paused \in { Bool(FALSE), Bool(TRUE), Null } :
       view = [Mount("viewer") EXCEPT !.schedule = snapshot,
                                      !.settings = Spread(@, [is_paused |-> paused])]
  /\ call = Polled("mount", {})
  /\ net = {}

\* the second new Date() follows the first within a millisecond
NextCountdown ==
  \E nowDate \in ClockSamples, later \in { 0, 1 } : CalculateCountdown(nowDate, nowDate + later)

SpecCountdown == InitCountdown /\ [][NextCountdown]_vars

\* the rows of the admin schedule page and their ids
ViewRows == { view.schedule[i] : i \in DOMAIN view.schedule }
ViewRowIds == { view.schedule[i].id : i \in DOMAIN view.schedule }

\* the form of the edit dialog: a new title
FormData == { [title |-> "b"] }

\* the admin opens the schedule page
InitAdmin ==
  /\ schedule = <<>>
  /\ now = 1
  /\ res = Ok("init", Null)
  /\ message = [id |-> Null, text |-> <<>>, active |-> FALSE, created |-> Null, acked_by |-> <<>>]
  /\ settings = defaultSettings
  /\ phases = <<>>
  /\ view = AdminScheduleMount
  /\ call = Polled("mount", {})
  /\ net = {}

\* the admin page next to requests of other clients: creates, and a PUT
\* that renames an item to the id "reorder"
NextAdmin ==
  \/ Tick
  \/ Len(schedule) < MaxAdminRows /\ PostSchedule([is_current |-> TRUE])
  \/ PutSchedule(Str("1"), [id |-> Str("reorder")])
  \/ AdminFetchData
  \/ \E editingItem \in ViewRows, formData \in FormData : HandleSubmit(editingItem, formData)
  \/ \E formData \in FormData :
       Len(schedule) < MaxAdminRows /\ HandleSubmit(Null, formData)
  \/ \E active \in ViewRowIds, over \in ViewRowIds \cup { Null } : HandleDragEnd(active, over)

SpecAdmin == InitAdmin /\ [][NextAdmin]_vars

\* the bearer tokens that a login can return
Tokens == { Str(ToString(n)) : n \in 1..MaxTokens }

\* the responses of POST /api/auth/login: rejected (wrong credentials, no
\* such route), accepted without data, with another key, with a null or an
\* empty token, and with a token
LoginResponses ==
  { [status |-> 401, data |-> <<>>], [status |-> 404, data |-> <<>>],
    [status |-> 200, data |-> <<>>], [status |-> 200, data |-> [detail |-> Str("ok")]],
    [status |-> 200, data |-> [token |-> Null]], [status |-> 200, data |-> [token |-> Str("")]] }
  \cup { [status |-> 200, data |-> [token |-> t]] : t \in Tokens }

\* the app is opened in a browser that stores no token, or the token of an
\* earlier login
InitAuth ==
  /\ schedule = <<>>
  /\ now = 1
  /\ res = Ok("init", Null)
  /\ message = [id |-> Null, text |-> <<>>, active |-> FALSE, created |-> Null, acked_by |-> <<>>]
  /\ settings = defaultSettings
  /\ phases = <<>>
  /\ view \in { AuthMount(<<>>) } \cup { AuthMount([token |-> t]) : t \in Tokens }
  /\ call = Polled("mount", {})
  /\ net = {}

NextAuth ==
  \/ AuthLoad
  \/ \E response \in LoginResponses : Login(response)
  \/ Logout
  \/ AuthReload

SpecAuth == InitAuth /\ [][NextAuth]_vars

\* what the admin types into the form: an event name, the countdown
\* switch, a colour
FormEdits ==
  { <<"event_name", Str("Gala")>>, <<"show_countdown", Bool(FALSE)>>,
    <<"primary_color", Str("#000000")>> }

\* the admin opens the settings page
InitForm ==
  /\ schedule = <<>>
  /\ now = 1
  /\ res = Ok("init", Null)
  /\ message = [id |-> Null, text |-> <<>>, active |-> FALSE, created |-> Null, acked_by |-> <<>>]
  /\ settings = defaultSettings
  /\ phases = <<>>
  /\ view = FormMount
  /\ call = Polled("mount", {})
  /\ net = {}

\* the settings page next to the pause toggle of the overview page
NextForm ==
  \/ ControlPause
  \/ \E edit \in FormEdits : FormEdit(edit[1], edit[2])
  \/ ResetToDefaults
  \/ \E failed \in SUBSET { "settings" } : FormFetchSettings(failed)
  \/ HandleSaveSettings

SpecForm == InitForm /\ [][NextForm]_vars

\* the popup of a page: an admin posts messages, the tab polls them with
\* overlapping requests and the user presses OK
NextPopup ==
  \/ Tick
  \/ \E text \in { <<"a">>, <<"b">> } : PostMessage([text |-> text])
  \/ Poll("fetchMessage")
  \/ \E r \in net : Receive(r)
  \/ \E r \in net : Fail(r)
  \/ \E failed \in SUBSET { "ack" } : HandleAck(failed)
  \/ \E failed \in SUBSET { "ack" } : CrewHandleAck(failed)

SpecPopup == InitPages /\ [][NextPopup]_vars

\* the three polling callbacks of the viewer page and of ThemeProvider
Callbacks == { "fetchData", "fetchMessage", "fetchSettings" }

\* the server starts with a stored schedule of one item, and a tab opens
\* the viewer page
InitPolling ==
  /\ schedule = <<[id |-> Str("1"), title |-> "Eintrag", is_current |-> FALSE]>>
  /\ now = 1
  /\ res = Ok("init", Null)
  /\ message = [id |-> Null, text |-> <<>>, active |-> FALSE, created |-> Null, acked_by |-> <<>>]
  /\ settings = defaultSettings
  /\ phases = <<>>
  /\ view = Mount("viewer")
  /\ call = Polled("mount", {})
  /\ net = {}

\* the viewer page polls with overlapping requests while the current item,
\* the pause flag and the message change
NextPolling ==
  \/ ControlNext
  \/ ControlPause
  \/ PostMessage([text |-> <<"a">>])
  \/ \E fn \in Callbacks : Poll(fn)
  \/ \E r \in net : Receive(r)
  \/ \E r \in net : Fail(r)

\* setInterval keeps starting every callback, and the polls of every
\* callback keep succeeding: again and again one of its responses arrives
PollingFairness ==
  \A fn \in Callbacks :
    /\ WF_vars(Poll(fn))
    /\ SF_vars(\E r \in InFlight(fn) : Receive(r))

SpecPolling == InitPolling /\ [][NextPolling]_vars /\ PollingFairness

----------------------------------------------------------------------------
(* Properties of the schedule control state machine, under Spec *)

\* the step handles a request of route op (every step but Tick is the
\* handling of one request, and no handler moves the clock)
Handled(op) == res'.op = op /\ now' = now

\* the 1-based positions of the items flagged current
CurrentSet(s) == { i \in DOMAIN s : s[i].is_current }

\* item k (0-based) is the only current item of s
OnlyCurrentAt(s, k) == CurrentSet(s) = { k + 1 }

\* some stored item has the id sid
InSchedule(sid) == \E i \in DOMAIN schedule : String(schedule[i].id) = sid

\* the ids of the items flagged current
CurrentIds(s) == { s[i].id : i \in CurrentSet(s) }

\* C1: in every reachable state at most one schedule item has
\* is_current = true.
C1_AtMostOneCurrent == Cardinality(CurrentSet(schedule)) <= 1

\* C2: after every next() or previous() on a non-empty schedule of length N
\* the current index lies in [0, N-1]; next() never moves the index down
\* (at N-1 it stays at N-1) and previous() never moves it up (at 0 it stays
\* at 0), so the index never wraps.
C2_IndexInRangeNoWrap ==
  [][ ((Handled("next") \/ Handled("previous")) /\ Len(schedule) > 0) =>
        LET i == getCurrentIndex
            j == getCurrentIndex'
            n == Len(schedule)
        IN /\ Len(schedule') = n
           /\ j \in 0..(n - 1)
           /\ (res'.op = "next" /\ i >= 0) => j >= i
           /\ (res'.op = "next" /\ i = n - 1) => j = n - 1
           /\ (res'.op = "previous" /\ i >= 0) => j <= i
           /\ (res'.op = "previous" /\ i = 0) => j = 0 ]_vars

\* next() was called with the last of at least two items current and the
\* index stayed at the end
C2_Witness ==
  /\ res.op = "next"
  /\ Len(schedule) = MaxLen
  /\ getCurrentIndex = MaxLen - 1

\* C3: next() succeeds; with no current item and a non-empty list, item 0
\* becomes the only current item; with current index i, item
\* min(len-1, i+1) becomes the only current item; an empty list stays
\* empty; next() at the last item leaves the schedule unchanged.
C3_NextSemantics ==
  [][ Handled("next") =>
        LET i == getCurrentIndex
            n == Len(schedule)
        IN /\ res'.status = 200
           /\ n = 0 => schedule' = <<>>
           /\ (n > 0 /\ i = -1) => OnlyCurrentAt(schedule', 0)
           /\ i >= 0 => OnlyCurrentAt(schedule', Min(n - 1, i + 1))
           /\ (n > 0 /\ i = n - 1) => schedule' = schedule ]_vars

\* next() has made the middle item of three the only current item
C3_Witness ==
  /\ res.op = "next"
  /\ Len(schedule) = 3
  /\ CurrentSet(schedule) = {2}

\* C4: previous() succeeds; with no current item or current index 0, item 0
\* becomes the only current item; with current index i, item max(0, i-1)
\* becomes the only current item; previous() at index 0 leaves the schedule
\* unchanged.
C4_PreviousSemantics ==
  [][ Handled("previous") =>
        LET i == getCurrentIndex
            n == Len(schedule)
        IN /\ res'.status = 200
           /\ n = 0 => schedule' = <<>>
           /\ (n > 0 /\ i = -1) => OnlyCurrentAt(schedule', 0)
           /\ i >= 0 => OnlyCurrentAt(schedule', IF i - 1 > 0 THEN i - 1 ELSE 0)
           /\ i = 0 => schedule' = schedule ]_vars

\* C5: set_current(id) with an id that no stored item has answers 404 and
\* leaves the schedule unchanged.
C5_SetCurrentAbsent ==
  [][ (Handled("set-current") /\ ~InSchedule(res'.arg)) =>
        /\ res'.status = 404
        /\ schedule' = schedule ]_vars

\* set-current was refused on a schedule that has a current item
C5_Witness ==
  /\ res.op = "set-current"
  /\ res.status = 404
  /\ ~InSchedule(res.arg)
  /\ CurrentSet(schedule) # {}

\* C6: set_current(id) with an id that a stored item has succeeds and
\* afterwards an item is current exactly when its id is that id, at every
\* position of the list and whatever was current before.
C6_SetCurrentPresent ==
  [][ (Handled("set-current") /\ InSchedule(res'.arg)) =>
        /\ res'.status = 200
        /\ DOMAIN schedule' = DOMAIN schedule
        /\ \A i \in DOMAIN schedule :
             schedule'[i].is_current = (String(schedule[i].id) = res'.arg) ]_vars

\* set-current has made the last of three items the only current item
C6_Witness ==
  /\ res.op = "set-current"
  /\ res.status = 200
  /\ Len(schedule) = 3
  /\ CurrentSet(schedule) = {3}
  /\ String(schedule[3].id) = res.arg

\* C7: reorder(ids) with a permutation of the stored ids makes the stored
\* order equal to ids and leaves the same items (by id) current.
C7_ReorderStoresOrder ==
  [][ Handled("reorder") =>
        /\ IdsOf(schedule') = res'.arg
        /\ CurrentIds(schedule') = CurrentIds(schedule) ]_vars

\* the routes of the schedule and control group that change server state
\* (the admin page sends them with the header of getAuthHeader)
AdminOps ==
  { "post", "put", "delete", "reorder", "clear-current", "set-current", "next", "previous" }

\* C13: an admin-mutating call without a valid bearer token answers 401 and
\* leaves the server state unchanged.  No handler reads the Authorization
\* header and the server issues no token, so every handled request is one
\* that carries no valid token.
C13_UnauthorizedRejected ==
  [][ (\E op \in AdminOps : Handled(op)) =>
        /\ res'.status = 401
        /\ schedule' = schedule ]_vars

\* C15: a PUT or DELETE on /schedule/{id} with an id that no stored item
\* has answers 404 and leaves the schedule unchanged.
C15_UnknownIdNotFound ==
  [][ ((Handled("put") \/ Handled("delete")) /\ ~InSchedule(res'.arg)) =>
        /\ res'.status = 404
        /\ schedule' = schedule ]_vars

\* C17: clear_current() answers 200 and afterwards no item is current; the
\* list has the same length and every item keeps its position, its id and
\* every field but is_current.
C17_ClearCurrent ==
  [][ Handled("clear-current") =>
        /\ res'.status = 200
        /\ CurrentSet(schedule') = {}
        /\ getCurrentIndex' = -1
        /\ Len(schedule') = Len(schedule)
        /\ \A i \in DOMAIN schedule :
             /\ DOMAIN schedule'[i] = DOMAIN schedule[i]
             /\ \A k \in DOMAIN schedule[i] \ {"is_current"} :
                  schedule'[i][k] = schedule[i][k] ]_vars

\* clear-current was called on a full list whose items differ in id and
\* title: all of them are still there and none is current
C17_Witness ==
  /\ res.op = "clear-current"
  /\ Len(schedule) = MaxLen
  /\ schedule[1].id # schedule[MaxLen].id
  /\ schedule[1].title # schedule[2].title
  /\ CurrentSet(schedule) = {}

\* the elements of a sequence are pairwise different
NoDuplicates(arr) == \A i, j \in DOMAIN arr : arr[i] = arr[j] => i = j

\* an item without its flag
Unflagged(item) == Spread(item, [is_current |-> FALSE])

\* the routes of the control operations on the schedule
ControlOps == { "next", "previous", "set-current", "clear-current" }

\* C21: next, previous, set-current and clear-current change only
\* is_current flags: the length of the schedule, the order of the items,
\* every id and every other field of every item, the settings and the
\* message are after the call what they were before.
C21_ControlFrame ==
  [][ (\E op \in ControlOps : Handled(op)) =>
        /\ Len(schedule') = Len(schedule)
        /\ \A i \in DOMAIN schedule : Unflagged(schedule'[i]) = Unflagged(schedule[i])
        /\ settings' = settings
        /\ message' = message ]_vars

\* next has moved the flag to the second of at least two items that differ
\* in their titles
C21_Witness ==
  /\ res.op = "next"
  /\ Len(schedule) >= 2
  /\ OnlyCurrentAt(schedule, 1)
  /\ schedule[1].title # schedule[2].title

\* C27: within a collection the ids of the stored records are pairwise
\* distinct in every reachable state (stated for the schedule; phases,
\* people and groups draw their ids from the same function id()).
C27_IdsDistinct == NoDuplicates(IdsOf(schedule))

----------------------------------------------------------------------------
(* Properties of the message, under SpecMessage *)

\* what a client with id c observes on GET /message?client_id=c
Observed(c) == MessageFor([client_id |-> c])

\* C8: a post with non-blank text answers 200, stores the trimmed text, sets
\* active and empties acked_by; every client, with or without client_id,
\* then gets the new message as active.
C8_PostReplacesAndReactivates ==
  [][ (Handled("post-message") /\ Trim(OrEmpty(res'.arg, "text")) # <<>>) =>
        /\ res'.status = 200
        /\ message'.text = Trim(res'.arg.text)
        /\ message'.id = Num(now)
        /\ message'.active
        /\ message'.acked_by = <<>>
        /\ \A q \in ClientBodies :
             /\ MessageFor(q)'.active
             /\ MessageFor(q)' = message' ]_vars

\* a message was posted after the first millisecond and is active for the
\* clients x and y
C8_Witness ==
  /\ res.op = "post-message"
  /\ res.status = 200
  /\ message.id # Num(1)
  /\ message.acked_by = <<>>
  /\ Observed(<<"x">>).active /\ Observed(<<"y">>).active

\* C9: GET /message?client_id=c returns active = (message.active and c not
\* in acked_by), and after a client has acknowledged an active message that
\* client gets active = false.
C9_ObservedActive ==
  /\ [](\A c \in ClientIds :
          Observed(c).active = (message.active /\ ~Includes(message.acked_by, c)))
  /\ [][ (Handled("ack") /\ res'.status = 200 /\ message'.active) =>
            ~Respond(message', [client_id |-> res'.arg.client_id]).active ]_vars

\* C10: in every reachable state no client id occurs twice in acked_by; no
\* ack changes id, text, active or created; an ack by a client that is
\* already in acked_by leaves the message as it was.
C10_AckIdempotent ==
  /\ [] NoDuplicates(message.acked_by)
  /\ [][ Handled("ack") =>
            /\ message'.id = message.id
            /\ message'.text = message.text
            /\ message'.active = message.active
            /\ message'.created = message.created
            /\ (res'.status = 200 /\ Includes(message.acked_by, Trim(res'.arg.client_id)))
                 => message' = message ]_vars

\* the last request is an ack by the client that acknowledged first, after
\* a second client acknowledged: a repeated ack
C10_Witness ==
  /\ res.op = "ack"
  /\ res.status = 200
  /\ Len(message.acked_by) = 2
  /\ message.acked_by[1] = Trim(res.arg.client_id)

\* C11: clear answers 200 and sets active = false whatever acked_by holds;
\* while the stored message is inactive every client, with any client_id or
\* none, gets it as inactive; and an inactive message stays inactive on
\* every step that is not a successful post.
C11_ClearedUntilNextPost ==
  /\ [][ Handled("clear-message") =>
            /\ res'.status = 200
            /\ ~message'.active
            /\ message'.acked_by = message.acked_by ]_vars
  /\ [](~message.active => \A q \in ClientBodies : ~MessageFor(q).active)
  /\ [][ (~message.active /\ ~(Handled("post-message") /\ res'.status = 200)) =>
            ~message'.active ]_vars

\* a message that client x had acknowledged and client y had not was
\* cleared: neither of them gets it as active
C11_Witness ==
  /\ res.op = "clear-message"
  /\ message.text # <<>>
  /\ message.acked_by = << <<"x">> >>
  /\ ~message.active
  /\ ~Observed(<<"x">>).active /\ ~Observed(<<"y">>).active

\* the text of a post body is missing, empty or blank
BlankText(body) == Trim(OrEmpty(body, "text")) = <<>>

\* the client_id of an ack body is missing, empty or blank
BlankClientId(body) == Trim(OrEmpty(body, "client_id")) = <<>>

\* C12: a post whose text is missing, empty or blank answers 400, and so
\* does an ack whose client_id is missing, empty or blank; the step leaves
\* id, text, active, created and acked_by of the message as they were.
C12_RejectedLeavesMessage ==
  [][ ((Handled("post-message") /\ BlankText(res'.arg))
       \/ (Handled("ack") /\ BlankClientId(res'.arg))) =>
        /\ res'.status = 400
        /\ message'.id = message.id
        /\ message'.text = message.text
        /\ message'.active = message.active
        /\ message'.created = message.created
        /\ message'.acked_by = message.acked_by ]_vars

\* a post with a blank text was refused while an acknowledged message is
\* active
C12_Witness ==
  /\ res.op = "post-message"
  /\ res.status = 400
  /\ res.arg = [text |-> <<" ">>]
  /\ message.active
  /\ message.acked_by # <<>>

----------------------------------------------------------------------------
(* Properties of the settings, under SpecSettings *)

\* C14: PUT /settings with a partial object answers 200 and merges it into
\* the settings: every supplied key takes the supplied value, every other
\* key keeps its value; GET /settings returns the whole stored record.
C14_PutMergesSettings ==
  /\ [][ Handled("put-settings") =>
            /\ res'.status = 200
            /\ DOMAIN settings' = (DOMAIN settings) \cup (DOMAIN res'.arg)
            /\ \A k \in DOMAIN res'.arg : settings'[k] = res'.arg[k]
            /\ \A k \in (DOMAIN settings) \ (DOMAIN res'.arg) : settings'[k] = settings[k] ]_vars
  /\ [][ Handled("get-settings") => (res'.status = 200 /\ res'.body = settings) ]_vars

\* C16: pause_toggle() answers 200, flips is_paused and leaves every other
\* settings key and the schedule as they were; toggling twice gives the
\* settings back.
C16_PauseToggle ==
  /\ [][ Handled("pause") =>
            /\ res'.status = 200
            /\ Boolean(settings'.is_paused) = ~Boolean(settings.is_paused)
            /\ DOMAIN settings' = DOMAIN settings
            /\ \A k \in (DOMAIN settings) \ {"is_paused"} : settings'[k] = settings[k]
            /\ schedule' = schedule ]_vars
  /\ [](PauseToggled(PauseToggled(settings)) = settings)

----------------------------------------------------------------------------
(* Properties of the consumer pages, under SpecPages *)

\* the data a fulfilled request for the snapshot r delivers to the tab
Delivered(r) ==
  CASE r = "schedule" -> schedule
    [] r = "phases" -> phases
    [] r = "people" -> people
    [] r = "groups" -> groups
    [] r = "message" -> MessageFor([client_id |-> clientId(view.page)])
    [] r = "settings" -> settings

C20_PauseKeepsCurrentItem ==
  /\ (CurrentItemBlock(view).block = "item")
       <=> (\E i \in DOMAIN view.schedule : view.schedule[i].is_current)
  /\ \A p \in { Bool(TRUE), Bool(FALSE), Null } :
       LET w == [view EXCEPT !.settings = Spread(@, [is_paused |-> p])]
       IN /\ CurrentItemBlock(w).block = CurrentItemBlock(view).block
          /\ CurrentItemBlock(w).item = CurrentItemBlock(view).item
          /\ CurrentItemBlock(w).countdown =
               (/\ CurrentItemBlock(view).block = "item"
                /\ Boolean(view.settings.show_countdown)
                /\ ~Boolean(p))

\* a page knows that the event is paused and shows the current item without
\* the countdown
C20_Witness ==
  /\ Boolean(view.settings.is_paused)
  /\ \E i \in DOMAIN view.schedule : view.schedule[i].is_current
  /\ CurrentItemBlock(view).block = "item"
  /\ ~CurrentItemBlock(view).countdown

----------------------------------------------------------------------------
(* Properties of the countdown, under SpecCountdown *)

\* t has the form HH:MM
IsHHMM(t) ==
  /\ Len(t) = 5
  /\ t[3] = ":"
  /\ \A i \in { 1, 2, 4, 5 } : t[i] \in DOMAIN DigitValue

\* the time HH:MM of the day of date, for t of the form HH:MM
EndOfToday(date, t) ==
  (date \div MsPerDay) * MsPerDay
  + (10 * DigitValue[t[1]] + DigitValue[t[2]]) * MsPerHour
  + (10 * DigitValue[t[4]] + DigitValue[t[5]]) * MsPerMinute

\* C19: the countdown that calculateCountdown sets has hours >= 0, minutes
\* and seconds in 0..59; it is zero when no item is current or is_paused
\* holds; and for a current item with an end_time HH:MM it is the whole
\* seconds of max(0, end_time of today - now), split into hours, minutes
\* and seconds.
C19_Countdown ==
  [][ call'.fn = "calculateCountdown" =>
        LET c == view'.countdown
            item == currentItem(view)
            paused == Boolean(view.settings.is_paused)
            total == 3600 * c.hours + 60 * c.minutes + c.seconds
            left == EndOfToday(call'.endTime, item.end_time) - call'.now
        IN /\ c.hours >= 0
           /\ c.minutes \in 0..59
           /\ c.seconds \in 0..59
           /\ (item = Null \/ paused) => total = 0
           /\ (item # Null /\ ~paused /\ IsHHMM(item.end_time)) =>
                total = (IF left > 0 THEN left ELSE 0) \div 1000 ]_vars

\* one millisecond after midnight the countdown of an item that ends at
\* 12:30 is 12:29:59
C19_Witness ==
  /\ call.fn = "calculateCountdown"
  /\ call.now = 1
  /\ currentItem(view) # Null
  /\ view.countdown = [hours |-> 12, minutes |-> 29, seconds |-> 59]

----------------------------------------------------------------------------
(* Properties of the admin schedule page, under SpecAdmin *)

\* the 1-based position of the item that PUT /api/schedule/<sid> addresses
PutTarget(sid) == FindIndex({ j \in DOMAIN schedule : String(schedule[j].id) = sid }) + 1

\* C23: PUT /schedule/{id} on an existing item answers 200 and stores every
\* field of the body on that item, whether or not the item is current;
\* after the edit form was submitted for it, the stored item has the
\* edited values and its is_current flag is what it was.
C23_EditStoresFields ==
  [][ (Handled("edit") /\ InSchedule(res'.arg.id)) =>
        LET i == PutTarget(res'.arg.id)
        IN /\ res'.status = 200
           /\ \A k \in DOMAIN res'.arg.body : schedule'[i][k] = res'.arg.body[k]
           /\ schedule'[i].is_current = schedule[i].is_current ]_vars

\* C28: when handleDragEnd has run on rows that showed the stored order
\* and the reorder request has completed, with success or with failure,
\* the order of the rows is the order of the stored schedule.
C28_DragOrderStored ==
  [][ (Handled("drag") /\ IdsOf(view.schedule) = IdsOf(schedule)) =>
        IdsOf(view'.schedule) = IdsOf(schedule') ]_vars

----------------------------------------------------------------------------
(* Properties of AuthProvider, under SpecAuth *)

\* C30: after the initial load isAuthenticated holds exactly when token is
\* not null, and token is the token stored in localStorage; a login that
\* is rejected or whose response has no token leaves token, isAuthenticated
\* and localStorage as they were.
C30_AuthConsistent ==
  /\ [](~view.loading =>
          /\ view.isAuthenticated <=> (view.token # Null)
          /\ view.token = getItem(view.localStorage, "token"))
  /\ [][ (/\ call'.fn = "login"
          /\ \/ res'.status # 200
             \/ TokenOf([status |-> res'.status, data |-> res'.arg]) = Null) =>
          /\ view'.token = view.token
          /\ view'.isAuthenticated = view.isAuthenticated
          /\ view'.localStorage = view.localStorage ]_vars

\* a rejected login in a session that holds the token of an earlier login
C30_Witness ==
  /\ res.op = "login"
  /\ res.status = 401
  /\ call = Polled("login", { "login" })
  /\ ~view.loading
  /\ view.isAuthenticated
  /\ view.token = Str("2")

----------------------------------------------------------------------------
(* Properties of the settings form, under SpecForm *)

\* C29: a poll of the settings that succeeds and returns the settings the
\* page already holds leaves the form as it is, unsaved edits included.
C29_PollKeepsFormEdits ==
  [][ (/\ call' = Polled("fetchSettings", {})
       /\ settings = view.settings) => view'.formData = view.formData ]_vars

----------------------------------------------------------------------------
(* Properties of the popup, under SpecPopup *)

\* the page v holds the stored message: same id, text and creation time
HoldsStored(v) ==
  /\ v.message # Null
  /\ v.message.id = message.id
  /\ v.message.text = message.text
  /\ v.message.created = message.created

\* the client id of the tab is in acked_by of the message m
AckedByTab(m) == Includes(m.acked_by, Trim(clientId(view.page)))

\* C24: an ack suppresses only the message the client was shown: when an
\* ack of the tab makes the stored active message inactive for the tab, the
\* message that the tab had received and showed is that stored message, not
\* an earlier one.
C24_AckSuppressesShown ==
  [][ (/\ res'.op = "ack"
       /\ message'.active
       /\ ~AckedByTab(message)
       /\ AckedByTab(message')) => HoldsStored(view) ]_vars

\* the messages a and b of two pages or responses are the same message
SameMessage(a, b) ==
  /\ a # Null
  /\ b # Null
  /\ a.id = b.id
  /\ a.text = b.text
  /\ a.created = b.created

\* the viewer or the current-only page holds an active message with its
\* popup closed, which is the state that handleAck leaves behind
ClosedByAck(v) ==
  /\ v.page \in { "viewer", "current" }
  /\ v.message # Null
  /\ v.message.active
  /\ v.message.text # <<>>
  /\ ~v.showPopup

\* C25: once the ack for the shown message has succeeded and handleAck has
\* closed the popup, no poll response that arrives later opens the popup
\* for that same message, a response to a poll sent before the ack
\* included.
C25_NoReopenAfterAck ==
  [][ (/\ ClosedByAck(view)
       /\ HoldsStored(view)
       /\ AckedByTab(message)
       /\ SameMessage(view'.message, view.message)) => ~view'.showPopup ]_vars

\* the step is the arrival of a response to fetchMessage
ReceivedMessage ==
  /\ net' # net
  /\ net' \subseteq net
  /\ call' = Polled("fetchMessage", {})

\* C26: on the crew page the popup is never open for the message whose key
\* (created and text) handleAck has stored, whether the ack request
\* succeeded or failed; and a response that brings a message with another
\* key, active on the server and with a text, opens the popup.
C26_DismissedStaysClosed ==
  /\ []((view.page = "crew" /\ view.showPopup) =>
          getDismissKey(view.message) # view.dismissed)
  /\ [][ (/\ view.page = "crew"
          /\ ReceivedMessage
          /\ SameMessage(view'.message, message)
          /\ message.active
          /\ message.text # <<>>
          /\ getDismissKey(message) # view.dismissed) => view'.showPopup ]_vars

----------------------------------------------------------------------------
(* Properties of the polling, under SpecPolling *)

\* the step changes nothing of what the server stores
ServerUnchanged == UNCHANGED <<schedule, phases, settings, message>>

\* the page holds the server's schedule, phases and settings and the
\* message as the server answers it to the tab
Synced ==
  /\ view.schedule = schedule
  /\ view.phases = phases
  /\ view.settings = settings
  /\ view.message = MessageFor([client_id |-> clientId(view.page)])

\* C22: polling converges: when the server's schedule, settings and message
\* stop changing and the polls keep succeeding, the page eventually holds
\* the server's schedule, settings and message and keeps holding them,
\* whatever the order in which the responses of overlapping polls arrive.
C22_PollingConverges == (<>[][ServerUnchanged]_vars) => <>[]Synced

\* the page holds what the server stores after a next, a pause and a post,
\* while an older response to fetchData is still on its way
C22_Witness ==
  /\ Synced
  /\ getCurrentIndex = 0
  /\ Boolean(settings.is_paused)
  /\ message.active
  /\ \E r \in InFlight("fetchData") : r.data.schedule # schedule
====
